---- MODULE Spec2Model ----
(***************************************************************************)
(* Conversation index, message log, conversation resolver and the time      *)
(* cursor scans of the messenger backend (app/models/cassandra_models.py,   *)
(* app/controllers/*.py), over the two tables scripts/setup_db.py creates.  *)
(*                                                                         *)
(* The store.  A table is the set of its rows; a row is identified by its   *)
(* primary key, and an INSERT of a key that is already present replaces     *)
(* the row (a CQL write is an upsert).                                      *)
(*   conversations_by_user  PRIMARY KEY (user_id, last_message_ts)          *)
(*   messages               PRIMARY KEY (conversation_id, timestamp)        *)
(* The application names the message table `messages` and its clustering   *)
(* column `timestamp`; the only message table the repository creates is     *)
(* messages_by_conversation with clustering column message_ts, so the two   *)
(* are one table here.                                                     *)
(*                                                                         *)
(* Every cassandra_client.execute is one step.  The model methods have no   *)
(* try/except, so a statement that raises ends the call with an error.      *)
(*                                                                         *)
(* Time is a counter (datetime.utcnow()), uuid.uuid4() is a fresh number.   *)
(***************************************************************************)
EXTENDS Integers, Sequences, FiniteSets, TLC

\* ------------------------------------------------------------------ bounds
MaxTime == 2            \* utcnow() runs over 1..MaxTime, timestamps over 0..MaxTime
MaxConversations == 2   \* conversation ids uuid4() may hand out
MaxMessages == 2        \* message ids uuid4() may hand out
MaxLimit == 2           \* page sizes 1..MaxLimit
SeedMessages == 1       \* messages per seeded conversation (randint(10, 50) in the script)

Users == {"A", "B", "C"}
Procs == {"p1", "p2"}
Senders == {"A", "B"}
Contents == {"hello"}
SeedContent == "Test message"

Timestamps == 0..MaxTime
ConversationIds == 1..MaxConversations
MessageIds == 1..MaxMessages
Limits == 1..MaxLimit

None == "None"
NoId == 0

\* Optional[datetime]: <<>> is None, <<t>> is the timestamp t
NoTimestamp == <<>>
OptionalTimestamps == {NoTimestamp} \cup {<<t>> : t \in Timestamps}

VARIABLES
    now,                    \* datetime.utcnow()
    conversations_by_user,  \* rows [user_id, last_message_ts, conversation_id, peer_id]
    messages,               \* rows [conversation_id, timestamp, message_id, sender_id, content]
    uuids,                  \* [conversation |-> ids handed out, message |-> ids handed out,
                            \*  created |-> the time each conversation id was made at]
    task,                   \* per caller: the call in progress and its locals
    result,                 \* per caller: outcome of its last completed call
    last,                   \* the most recently completed operation
    page,                   \* what the last scan returned, how many rows it matched
                            \* and how many its partition held
    response,               \* what the last request answered, with the rows it asked for
    pager,                  \* a client chaining pages with the minimum timestamp as cursor
    appended,               \* the appends that returned: [conversation_id, message_id]
    bootstrap               \* scripts/setup_db.py: wait_for_cassandra and what it logged

vars == <<now, conversations_by_user, messages, uuids, task, result, last, page,
          response, pager, appended, bootstrap>>

\* ------------------------------------------------------------- the store

\* INSERT INTO conversations_by_user: upsert on (user_id, last_message_ts)
InsertConversationRow(tbl, row) ==
    {r \in tbl : ~(r.user_id = row.user_id /\ r.last_message_ts = row.last_message_ts)}
        \cup {row}

MembershipRow(user, ts, cid, peer) ==
    [user_id |-> user, last_message_ts |-> ts, conversation_id |-> cid, peer_id |-> peer]

\* INSERT INTO messages: upsert on (conversation_id, timestamp)
InsertMessageRow(tbl, row) ==
    {r \in tbl : ~(r.conversation_id = row.conversation_id /\ r.timestamp = row.timestamp)}
        \cup {row}

MessageRow(cid, ts, mid, sender, content) ==
    [conversation_id |-> cid, timestamp |-> ts, message_id |-> mid,
     sender_id |-> sender, content |-> content]

\* UPDATE conversations_by_user SET last_message_ts = ts WHERE conversation_id = cid,
\* when the store applies it: every row of the conversation takes the new
\* clustering key, replacing whatever row its owner had there.
UpdateLastMessageTs(tbl, ts, cid) ==
    LET moved == {MembershipRow(r.user_id, ts, r.conversation_id, r.peer_id) :
                     r \in {x \in tbl : x.conversation_id = cid}}
        kept  == {r \in tbl : /\ r.conversation_id # cid
                              /\ ~\E m \in moved : /\ m.user_id = r.user_id
                                                   /\ m.last_message_ts = r.last_message_ts}
    IN  kept \cup moved

\* One partition of conversations_by_user / of messages
UserPartition(tbl, user) == {r \in tbl : r.user_id = user}
ConversationPartition(tbl, cid) == {r \in tbl : r.conversation_id = cid}

\* SELECT conversation_id FROM conversations_by_user WHERE user_id IN (a, b) LIMIT 1.
\* Within a partition rows come in clustering order (last_message_ts DESC); the
\* order of the partitions of an IN is the store's, so the first row is the
\* newest row of either partition.
ProbeRows(tbl, user_a, user_b) ==
    {r \in tbl : /\ r.user_id \in {user_a, user_b}
                 /\ \A o \in UserPartition(tbl, r.user_id) :
                        o.last_message_ts <= r.last_message_ts}

\* ------------------------------------------------------------ the callers

Idle ==
    [op |-> "idle", pc |-> "idle", user_a |-> None, user_b |-> None,
     conversation_id |-> NoId, now |-> 0, sender_id |-> None, content |-> None,
     timestamp |-> 0, message_id |-> NoId]

NoResult == [op |-> "none", status |-> "none", user_a |-> None, user_b |-> None,
             value |-> NoId]

NoPage == [kind |-> "none", key |-> None, before_ts |-> NoTimestamp, cursor |-> 0, limit |-> 0,
           items |-> <<>>, matched |-> 0, size |-> 0]

NoResponse == [request |-> "none", status |-> 0, items |-> <<>>, rows |-> 0,
               before |-> NoTimestamp]

NoPager == [state |-> "off", conversation_id |-> NoId, limit |-> 0, cursor |-> NoTimestamp,
            pages |-> <<>>, appended |-> {}, first |-> 0]

\* wait_for_cassandra has not been called
NoBootstrap == [pc |-> "off", attempts |-> 0, cluster |-> None, log |-> <<>>]

\* uuid.uuid4(): an id never handed out before; ids are interchangeable, so the
\* smallest unused one stands for any of them
Fresh(ids, used) ==
    {i \in ids \ used : \A j \in ids \ used : i <= j}

FreshConversationIds == Fresh(ConversationIds, uuids.conversation)
FreshMessageIds == Fresh(MessageIds, uuids.message)

Init ==
    /\ now = 1
    /\ conversations_by_user = {}
    /\ messages = {}
    /\ uuids = [conversation |-> {}, message |-> {}, created |-> {}]
    /\ task = [p \in Procs |-> Idle]
    /\ result = [p \in Procs |-> NoResult]
    /\ last = NoResult
    /\ page = NoPage
    /\ response = NoResponse
    /\ pager = NoPager
    /\ appended = {}
    /\ bootstrap = NoBootstrap

\* datetime.utcnow() advances
Tick ==
    /\ now < MaxTime
    /\ now' = now + 1
    /\ UNCHANGED <<conversations_by_user, messages, uuids, task, result, last, page,
                   response, pager, appended,
                   bootstrap>>

Finish(p, res) ==
    /\ task' = [task EXCEPT ![p] = Idle]
    /\ result' = [result EXCEPT ![p] = res]
    /\ last' = res

\* ---------------------------------- ConversationModel.create_or_get_conversation

ResolveResult(t, status, cid) ==
    [op |-> "resolve", status |-> status, user_a |-> t.user_a, user_b |-> t.user_b,
     value |-> cid]

\* the call is made
ResolveCall(p, user_a, user_b) ==
    /\ task[p].op = "idle"
    /\ task' = [task EXCEPT ![p] = [Idle EXCEPT !.op = "resolve", !.pc = "probe",
                                                 !.user_a = user_a, !.user_b = user_b]]
    /\ UNCHANGED <<now, conversations_by_user, messages, uuids, result, last, page,
                   response, pager, appended,
                   bootstrap>>

\* the probe found a row and the call, before returning its conversation_id,
\* rewrites the row at the current time
ResolveFoundRefreshing(p) ==
    /\ task[p].op = "resolve" /\ task[p].pc = "probe"
    /\ \E r \in ProbeRows(conversations_by_user, task[p].user_a, task[p].user_b) :
           /\ Finish(p, ResolveResult(task[p], "ok", r.conversation_id))
           /\ conversations_by_user' =
                  InsertConversationRow(conversations_by_user,
                      MembershipRow(r.user_id, now, r.conversation_id, r.peer_id))
    /\ UNCHANGED <<now, messages, uuids, page, response, pager, appended, bootstrap>>

\* lines 80-89: the probe found a row, its conversation_id is returned
ResolveFound(p) ==
    /\ task[p].op = "resolve" /\ task[p].pc = "probe"
    /\ \E r \in ProbeRows(conversations_by_user, task[p].user_a, task[p].user_b) :
           Finish(p, ResolveResult(task[p], "ok", r.conversation_id))
    /\ UNCHANGED <<now, conversations_by_user, messages, uuids, page, response, pager, appended,
                   bootstrap>>

\* lines 80-93: the probe found nothing; conversation_id = uuid4(), now = utcnow()
ResolveMiss(p) ==
    /\ task[p].op = "resolve" /\ task[p].pc = "probe"
    /\ ProbeRows(conversations_by_user, task[p].user_a, task[p].user_b) = {}
    /\ \E cid \in FreshConversationIds :
           /\ uuids' = [uuids EXCEPT !.conversation = @ \cup {cid},
                                    !.created = @ \cup {[conversation_id |-> cid,
                                                         ts |-> now]}]
           /\ task' = [task EXCEPT ![p].pc = "insert_a", ![p].conversation_id = cid,
                                   ![p].now = now]
    /\ UNCHANGED <<now, conversations_by_user, messages, result, last, page, response,
                   pager, appended,
                   bootstrap>>

\* lines 96-99: the row under user_a
ResolveInsertA(p) ==
    /\ task[p].op = "resolve" /\ task[p].pc = "insert_a"
    /\ conversations_by_user' =
           InsertConversationRow(conversations_by_user,
               MembershipRow(task[p].user_a, task[p].now, task[p].conversation_id,
                             task[p].user_b))
    /\ task' = [task EXCEPT ![p].pc = "insert_b"]
    /\ UNCHANGED <<now, messages, uuids, result, last, page, response, pager, appended,
                   bootstrap>>

\* lines 101-106: the row under user_b, and the id is returned
ResolveInsertB(p) ==
    /\ task[p].op = "resolve" /\ task[p].pc = "insert_b"
    /\ conversations_by_user' =
           InsertConversationRow(conversations_by_user,
               MembershipRow(task[p].user_b, task[p].now, task[p].conversation_id,
                             task[p].user_a))
    /\ Finish(p, ResolveResult(task[p], "ok", task[p].conversation_id))
    /\ UNCHANGED <<now, messages, uuids, page, response, pager, appended, bootstrap>>

\* lines 101-104 raise (the store is unavailable): the call ends with the error,
\* the row under user_a stays
ResolveInsertBFails(p) ==
    /\ task[p].op = "resolve" /\ task[p].pc = "insert_b"
    /\ Finish(p, ResolveResult(task[p], "error", NoId))
    /\ UNCHANGED <<now, conversations_by_user, messages, uuids, page, response, pager, appended,
                   bootstrap>>

\* ------------------------------------------------- MessageModel.create_message

AppendResult(t, status) ==
    [op |-> "append", status |-> status, user_a |-> None, user_b |-> None,
     value |-> IF status = "ok" THEN t.message_id ELSE NoId]

\* lines 132-133: message_id = uuid4(); timestamp = timestamp or utcnow()
AppendCall(p, sender_id, conversation_id, content, timestamp) ==
    /\ task[p].op = "idle"
    /\ \E mid \in FreshMessageIds :
           /\ uuids' = [uuids EXCEPT !.message = @ \cup {mid}]
           /\ task' = [task EXCEPT ![p] =
                  [Idle EXCEPT !.op = "append", !.pc = "insert",
                               !.sender_id = sender_id,
                               !.conversation_id = conversation_id,
                               !.content = content,
                               !.timestamp = IF timestamp = NoTimestamp THEN now
                                            ELSE timestamp[1],
                               !.message_id = mid]]
    /\ UNCHANGED <<now, conversations_by_user, messages, result, last, page, response,
                   pager, appended,
                   bootstrap>>

\* the message row is not written before the UPDATE
AppendInsertDeferred(p) ==
    /\ task[p].op = "append" /\ task[p].pc = "insert"
    /\ task' = [task EXCEPT ![p].pc = "update"]
    /\ UNCHANGED <<now, conversations_by_user, messages, uuids, result, last, page, response,
                   pager, appended,
                   bootstrap>>

\* lines 135-142: the message row is written
AppendInsert(p) ==
    /\ task[p].op = "append" /\ task[p].pc = "insert"
    /\ messages' = InsertMessageRow(messages,
           MessageRow(task[p].conversation_id, task[p].timestamp, task[p].message_id,
                      task[p].sender_id, task[p].content))
    /\ task' = [task EXCEPT ![p].pc = "update"]
    /\ UNCHANGED <<now, conversations_by_user, uuids, result, last, page, response, pager, appended,
                   bootstrap>>

\* the INSERT raises and the UPDATE is issued all the same
AppendInsertFailsThenUpdates(p) ==
    /\ task[p].op = "append" /\ task[p].pc = "insert"
    /\ conversations_by_user' =
           UpdateLastMessageTs(conversations_by_user, task[p].timestamp,
                               task[p].conversation_id)
    /\ Finish(p, AppendResult(task[p], "error"))
    /\ UNCHANGED <<now, messages, uuids, page, response, pager, appended, bootstrap>>

\* lines 139-142 raise: the call ends with the error before the UPDATE
AppendInsertFails(p) ==
    /\ task[p].op = "append" /\ task[p].pc = "insert"
    /\ Finish(p, AppendResult(task[p], "error"))
    /\ UNCHANGED <<now, conversations_by_user, messages, uuids, page, response, pager, appended,
                   bootstrap>>

\* lines 144-151: the UPDATE is applied and message_id is returned
AppendUpdate(p) ==
    /\ task[p].op = "append" /\ task[p].pc = "update"
    /\ conversations_by_user' =
           UpdateLastMessageTs(conversations_by_user, task[p].timestamp,
                               task[p].conversation_id)
    /\ Finish(p, AppendResult(task[p], "ok"))
    /\ appended' = appended \cup {[conversation_id |-> task[p].conversation_id,
                                    message_id |-> task[p].message_id]}
    /\ UNCHANGED <<now, messages, uuids, page, response, pager, bootstrap>>

\* lines 145-149 raise (last_message_ts is a primary key column of
\* conversations_by_user and the WHERE names no partition key, so a CQL store
\* rejects the statement): the call ends with the error, the message row stays
AppendUpdateFails(p) ==
    /\ task[p].op = "append" /\ task[p].pc = "update"
    /\ Finish(p, AppendResult(task[p], "error"))
    /\ UNCHANGED <<now, conversations_by_user, messages, uuids, page, response, pager, appended,
                   bootstrap>>

\* ------------------------------------ scripts/generate_test_data.py, one conversation

RECURSIVE SeedMessageRows(_, _, _, _, _)
\* lines 51-60: message i at base_time - i, from senders[i]
SeedMessageRows(tbl, cid, base_time, senders, i) ==
    IF i >= SeedMessages THEN tbl
    ELSE SeedMessageRows(
             InsertMessageRow(tbl, MessageRow(cid, base_time - i, NoId, senders[i],
                                              SeedContent)),
             cid, base_time, senders, i + 1)

\* lines 43-67: one iteration of the loop over NUM_CONVERSATIONS.  The script
\* seeds the store before the application appends to it.
GenerateTestData(user_a, user_b) ==
    /\ user_a # user_b
    /\ \A p \in Procs : task[p].op = "idle"
    /\ uuids.message = {}
    /\ now >= SeedMessages - 1
    /\ \E cid \in FreshConversationIds :
       \E senders \in [0..(SeedMessages - 1) -> {user_a, user_b}] :
           /\ uuids' = [uuids EXCEPT !.conversation = @ \cup {cid},
                                    !.created = @ \cup {[conversation_id |-> cid,
                                                         ts |-> now]}]
           /\ messages' = SeedMessageRows(messages, cid, now, senders, 0)
           /\ conversations_by_user' =
                  InsertConversationRow(
                      InsertConversationRow(conversations_by_user,
                                            MembershipRow(user_a, now, cid, user_b)),
                      MembershipRow(user_b, now, cid, user_a))
           /\ last' = NoResult
    /\ UNCHANGED <<now, task, result, page, response, pager, appended, bootstrap>>

\* ---------------------------------------------------------------- the scans

\* ORDER BY ts ASC: the oldest key first
Oldest(S) == CHOOSE x \in S : \A y \in S : x <= y

\* ORDER BY ts DESC: the newest key first
Max(S) == CHOOSE x \in S : \A y \in S : y <= x

RECURSIVE TakeDescending(_, _)
\* ORDER BY ts DESC LIMIT n over the clustering keys of one partition
TakeDescending(keys, n) ==
    IF n = 0 \/ keys = {} THEN <<>>
    ELSE <<Max(keys)>> \o TakeDescending(keys \ {Max(keys)}, n - 1)

\* the bound taken inclusively: last_message_ts <= cursor
UserRowsAtOrBefore(tbl, user_id, cursor) ==
    {r \in UserPartition(tbl, user_id) : r.last_message_ts <= cursor}

\* WHERE user_id = %s AND last_message_ts < %s
UserRowsBefore(tbl, user_id, cursor) ==
    {r \in UserPartition(tbl, user_id) : r.last_message_ts < cursor}

\* WHERE conversation_id = %s AND timestamp < %s
MessageRowsBefore(tbl, conversation_id, cursor) ==
    {r \in ConversationPartition(tbl, conversation_id) : r.timestamp < cursor}

\* ConversationModel.get_user_conversations: the rows of the page, as dicts
UserConversations(tbl, user_id, limit, cursor) ==
    LET rows == UserRowsBefore(tbl, user_id, cursor)
        keys == TakeDescending({r.last_message_ts : r \in rows}, limit)
    IN  [i \in 1..Len(keys) |->
            LET r == CHOOSE x \in rows : x.last_message_ts = keys[i]
            IN  [conversation_id |-> r.conversation_id, peer_id |-> r.peer_id,
                 last_message_ts |-> r.last_message_ts]]

\* MessageModel.get_conversation_messages: the rows of the page, as dicts
ConversationMessages(tbl, conversation_id, limit, cursor) ==
    LET rows == MessageRowsBefore(tbl, conversation_id, cursor)
        keys == TakeDescending({r.timestamp : r \in rows}, limit)
    IN  [i \in 1..Len(keys) |->
            LET r == CHOOSE x \in rows : x.timestamp = keys[i]
            IN  [message_id |-> r.message_id, sender_id |-> r.sender_id,
                 content |-> r.content, timestamp |-> r.timestamp]]

\* an absent cursor taken as no bound at all
CursorOrLatest(before_ts) == IF before_ts = NoTimestamp THEN MaxTime + 1 ELSE before_ts[1]

\* `before_ts if before_ts else datetime.utcnow()`
Cursor(before_ts) == IF before_ts = NoTimestamp THEN now ELSE before_ts[1]

\* ConversationModel.get_user_conversations(user_id, limit, before_ts)
GetUserConversations(user_id, limit, before_ts) ==
    /\ page = NoPage
    /\ page' = [kind |-> "conversations", key |-> user_id, before_ts |-> before_ts,
                cursor |-> Cursor(before_ts), limit |-> limit,
                items |-> UserConversations(conversations_by_user, user_id, limit,
                                            Cursor(before_ts)),
                matched |-> Cardinality(UserRowsBefore(conversations_by_user, user_id,
                                                       Cursor(before_ts))),
                size |-> Cardinality(UserPartition(conversations_by_user, user_id))]
    /\ UNCHANGED <<now, conversations_by_user, messages, uuids, task, result, last,
                   response, pager, appended,
                   bootstrap>>

\* MessageModel.get_conversation_messages(conversation_id, limit, before_ts)
GetConversationMessages(conversation_id, limit, before_ts) ==
    /\ page = NoPage
    /\ page' = [kind |-> "messages", key |-> conversation_id, before_ts |-> before_ts,
                cursor |-> Cursor(before_ts), limit |-> limit,
                items |-> ConversationMessages(messages, conversation_id, limit,
                                               Cursor(before_ts)),
                matched |-> Cardinality(MessageRowsBefore(messages, conversation_id,
                                                          Cursor(before_ts))),
                size |-> Cardinality(ConversationPartition(messages, conversation_id))]
    /\ UNCHANGED <<now, conversations_by_user, messages, uuids, task, result, last,
                   response, pager, appended,
                   bootstrap>>

\* MessageModel.get_messages_before_timestamp(conversation_id, before_timestamp, limit)
GetMessagesBeforeTimestamp(conversation_id, before_timestamp, limit) ==
    /\ before_timestamp # NoTimestamp
    /\ GetConversationMessages(conversation_id, limit, before_timestamp)

\* ---------------------------------------------------------- specifications

AllIdle == \A p \in Procs : task[p].op = "idle"

Pair(a, b) == {a, b}

\* the calls of create_or_get_conversation, interleaved statement by statement
CreateOrGetConversation ==
    \E p \in Procs :
        \/ \E a, b \in Users : a # b /\ ResolveCall(p, a, b)
        \/ ResolveFound(p)
        \/ ResolveMiss(p)
        \/ ResolveInsertA(p)
        \/ ResolveInsertB(p)

\* the calls of create_message, interleaved statement by statement
CreateMessage ==
    \E p \in Procs :
        \/ \E sender \in Senders, cid \in uuids.conversation, content \in Contents,
              ts \in OptionalTimestamps : AppendCall(p, sender, cid, content, ts)
        \/ AppendInsert(p)
        \/ AppendUpdate(p)

\* a statement of create_message raises
CreateMessageFault ==
    \E p \in Procs :
        \/ AppendInsertFails(p)
        \/ AppendUpdateFails(p)

Seed == \E a, b \in Users : GenerateTestData(a, b)

\* the resolver alone, N = 2 concurrent callers on an empty store
NextResolve == Tick \/ CreateOrGetConversation
SpecResolve == Init /\ [][NextResolve]_vars

\* C1: when no call is in progress, all the calls of create_or_get_conversation
\* for one unordered pair of users returned the same conversation id, and the
\* membership rows between two users carry a single conversation id.
C1_OneConversationPerPair ==
    AllIdle =>
        /\ \A p, q \in Procs :
               (/\ result[p].op = "resolve" /\ result[p].status = "ok"
                /\ result[q].op = "resolve" /\ result[q].status = "ok"
                /\ Pair(result[p].user_a, result[p].user_b)
                       = Pair(result[q].user_a, result[q].user_b))
               => result[p].value = result[q].value
        /\ \A a, b \in Users :
               Cardinality({r.conversation_id :
                               r \in {x \in conversations_by_user :
                                         Pair(x.user_id, x.peer_id) = Pair(a, b)}}) <= 1

\* one call at a time: a call is made only when no call is in progress
SequentialResolve ==
    \E p \in {"p1"} :
        \/ \E a, b \in Users : a # b /\ AllIdle /\ ResolveCall(p, a, b)
        \/ ResolveFound(p)
        \/ ResolveMiss(p)
        \/ ResolveInsertA(p)
        \/ ResolveInsertB(p)

SequentialAppend ==
    \E p \in {"p1"} :
        \/ \E sender \in Senders, cid \in uuids.conversation, content \in Contents,
              ts \in OptionalTimestamps :
                  AllIdle /\ AppendCall(p, sender, cid, content, ts)
        \/ AppendInsert(p)
        \/ AppendUpdate(p)

\* sequential callers over a store the seeding script and earlier calls filled
NextSeq == Tick \/ Seed \/ SequentialResolve
SpecSeq == Init /\ [][NextSeq]_vars

ResolveReturns(p) ==
    /\ task[p].op = "resolve"
    /\ task'[p].op = "idle"
    /\ result'[p].status = "ok"

\* C2: a call of create_or_get_conversation that returns right after a completed
\* call for the same unordered pair of users returns the same conversation id.
C2_SequentialIdempotence ==
    [][\A p \in Procs :
          (/\ ResolveReturns(p)
           /\ last.op = "resolve" /\ last.status = "ok"
           /\ Pair(last.user_a, last.user_b) = Pair(task[p].user_a, task[p].user_b))
          => result'[p].value = last.value]_vars

\* C3: a call of create_or_get_conversation(A, B) that returns from its probe
\* returns the id of a membership row with user_id = A and peer_id = B, and two
\* calls for different unordered pairs of users return different ids.
C3_ExactPairOnly ==
    /\ [][\A p \in Procs :
            (ResolveReturns(p) /\ task[p].pc = "probe")
            => \E r \in conversations_by_user :
                   /\ r.user_id = task[p].user_a
                   /\ r.peer_id = task[p].user_b
                   /\ r.conversation_id = result'[p].value]_vars
    /\ [][\A p \in Procs :
            (/\ ResolveReturns(p)
             /\ last.op = "resolve" /\ last.status = "ok"
             /\ Pair(last.user_a, last.user_b) # Pair(task[p].user_a, task[p].user_b))
            => result'[p].value # last.value]_vars

\* concurrent callers of create_message on the conversations the seeding script
\* made, statements that raise included
Next == Tick \/ Seed \/ CreateMessage \/ CreateMessageFault
Spec == Init /\ [][Next]_vars

\* the caller is done with the list a scan returned
DiscardPage ==
    /\ page # NoPage
    /\ page' = NoPage
    /\ UNCHANGED <<now, conversations_by_user, messages, uuids, task, result, last,
                   response, pager, appended,
                   bootstrap>>

\* the scans of both tables
Scan ==
    \E limit \in Limits, before_ts \in OptionalTimestamps :
        \/ \E user_id \in Users : GetUserConversations(user_id, limit, before_ts)
        \/ \E cid \in ConversationIds : GetConversationMessages(cid, limit, before_ts)
        \/ \E cid \in ConversationIds : GetMessagesBeforeTimestamp(cid, before_ts, limit)

\* the seeding script, drawing the conversations of one user
SeedOneUser == \E b \in Users \ {"A"} : GenerateTestData("A", b)

\* the scans over a seeded store
NextScan == Tick \/ SeedOneUser \/ Scan \/ DiscardPage
SpecScan == Init /\ [][NextScan]_vars

ItemTimestamp(kind, item) ==
    IF kind = "conversations" THEN item.last_message_ts ELSE item.timestamp

\* C7: every row of a page returned by get_user_conversations,
\* get_conversation_messages or get_messages_before_timestamp has a timestamp
\* strictly less than the cursor of that scan; a row at the cursor is not in it.
C7_ExclusiveBound ==
    page # NoPage =>
        \A i \in 1..Len(page.items) : ItemTimestamp(page.kind, page.items[i]) < page.cursor

\* a scan of a user's conversations with a cursor given, a row of that user at
\* the cursor, and an older row in the page
C7_Witness ==
    /\ page # NoPage
    /\ page.kind = "conversations"
    /\ page.before_ts # NoTimestamp
    /\ \E r \in UserPartition(conversations_by_user, page.key) :
           r.last_message_ts = page.cursor
    /\ Len(page.items) >= 1

\* C4: when no call is in progress, every conversation that has membership rows
\* has exactly two, one under each participant, each naming the other as peer.
C4_MembershipInvariant ==
    AllIdle =>
        \A cid \in {r.conversation_id : r \in conversations_by_user} :
            LET rows == ConversationPartition(conversations_by_user, cid)
            IN  /\ Cardinality(rows) = 2
                /\ \E r1, r2 \in rows : /\ r1.user_id # r2.user_id
                                        /\ r1.peer_id = r2.user_id
                                        /\ r2.peer_id = r1.user_id

AppendReturns(p) ==
    /\ task[p].op = "append"
    /\ task[p].pc = "update"
    /\ task'[p].op = "idle"

\* C9: when a call of create_message that wrote its message row ends, the
\* membership rows of the conversation carry the message's timestamp, and when
\* no call is in progress the rows of one conversation agree on last_message_ts.
C9_DualIndexUpdate ==
    /\ [][\A p \in Procs :
            AppendReturns(p)
            => \A r \in ConversationPartition(conversations_by_user',
                                              task[p].conversation_id) :
                   r.last_message_ts = task[p].timestamp]_vars
    /\ [](AllIdle =>
            \A r1, r2 \in conversations_by_user :
                r1.conversation_id = r2.conversation_id
                => r1.last_message_ts = r2.last_message_ts)

\* C10: when no call is in progress, every call of create_message that
\* returned has its message in the partition of its conversation.
C10_NoLostMessages ==
    AllIdle =>
        \A a \in appended :
            \E m \in ConversationPartition(messages, a.conversation_id) :
                m.message_id = a.message_id

\* ------------------------------------------------------ a paginating client

AppendedTo(cid) == {a.message_id : a \in {x \in appended : x.conversation_id = cid}}

\* a client starts to page through a conversation: no cursor on the first scan
PagerStart(conversation_id, limit) ==
    /\ pager.state = "off"
    /\ AllIdle
    /\ pager' = [NoPager EXCEPT !.state = "run", !.conversation_id = conversation_id,
                                !.limit = limit,
                                !.appended = AppendedTo(conversation_id)]
    /\ UNCHANGED <<now, conversations_by_user, messages, uuids, task, result, last, page,
                   response, appended,
                   bootstrap>>

\* one get_conversation_messages; the minimum timestamp of the page is the next
\* cursor, a page shorter than limit ends the chain
PagerFetch ==
    /\ pager.state = "run"
    /\ LET items == ConversationMessages(messages, pager.conversation_id, pager.limit,
                                         Cursor(pager.cursor))
       IN  pager' = [pager EXCEPT
               !.pages = Append(@, items),
               !.first = IF pager.pages = <<>> THEN Cursor(pager.cursor) ELSE @,
               !.state = IF Len(items) < pager.limit THEN "done" ELSE "run",
               !.cursor = IF Len(items) < pager.limit THEN @
                          ELSE <<items[Len(items)].timestamp>>]
    /\ UNCHANGED <<now, conversations_by_user, messages, uuids, task, result, last, page,
                   response, appended,
                   bootstrap>>

Paginate ==
    \/ \E cid \in uuids.conversation, limit \in Limits : PagerStart(cid, limit)
    \/ PagerFetch

\* the message scan with no cursor
ScanMessagesFromNow ==
    \E cid \in uuids.conversation, limit \in Limits :
        GetConversationMessages(cid, limit, NoTimestamp)

\* sequential resolves and appends, then a scan with no cursor
NextRoundTrip == Tick \/ SequentialResolve \/ SequentialAppend \/ ScanMessagesFromNow
                     \/ DiscardPage
SpecRoundTrip == Init /\ [][NextRoundTrip]_vars

\* sequential resolves and appends, then a client paging through a conversation
NextPager == Tick \/ SequentialResolve \/ SequentialAppend \/ Paginate
SpecPager == Init /\ [][NextPager]_vars

RECURSIVE Flatten(_)
Flatten(pages) == IF pages = <<>> THEN <<>> ELSE Head(pages) \o Flatten(Tail(pages))

Occurrences(seq, mid) == Cardinality({i \in 1..Len(seq) : seq[i].message_id = mid})

StrictlyDescending(items) ==
    \A i \in 1..(Len(items) - 1) : items[i].timestamp > items[i + 1].timestamp

CeilDiv(n, l) == (n + l - 1) \div l

\* C5: a scan with no cursor and limit k of a conversation to which k messages
\* were appended, all with timestamps before the time of the scan, returns
\* exactly those k messages, each once, in strictly descending timestamp order.
C5_AppendThenScan ==
    [][(/\ page = NoPage /\ page' # NoPage
        /\ page'.kind = "messages" /\ page'.before_ts = NoTimestamp
        /\ AllIdle
        /\ AppendedTo(page'.key) # {}
        /\ page'.limit = Cardinality(AppendedTo(page'.key))
        /\ \A m \in ConversationPartition(messages, page'.key) : m.timestamp < now)
       => /\ Len(page'.items) = page'.limit
          /\ \A mid \in AppendedTo(page'.key) : Occurrences(page'.items, mid) = 1
          /\ StrictlyDescending(page'.items)]_vars

\* C6: a client that pages with limit L through a conversation to which N > L
\* messages were appended, all with timestamps before its first scan, has seen
\* each of the N messages exactly once when a page shorter than L ends the
\* chain, and the messages filled ceil(N/L) pages.
C6_PaginationComplete ==
    (/\ pager.state = "done"
     /\ AllIdle
     /\ AppendedTo(pager.conversation_id) = pager.appended
     /\ pager.limit < Cardinality(pager.appended)
     /\ \A m \in ConversationPartition(messages, pager.conversation_id) :
            m.timestamp < pager.first)
    => LET seen == Flatten(pager.pages)
           n == Cardinality(pager.appended)
       IN  /\ Len(seen) = n
           /\ \A mid \in pager.appended : Occurrences(seen, mid) = 1
           /\ Cardinality({i \in 1..Len(pager.pages) : pager.pages[i] # <<>>})
                  = CeilDiv(n, pager.limit)
           /\ Len(pager.pages[Len(pager.pages)]) < pager.limit

\* ----------------------------------------------------------- the controllers

HTTP_200_OK == 200
HTTP_404_NOT_FOUND == 404
HTTP_500_INTERNAL_SERVER_ERROR == 500

Return(items) == [kind |-> "return", status |-> HTTP_200_OK, items |-> items]
Raise(status) == [kind |-> "raise", status |-> status, items |-> <<>>]

\* `except Exception as e: raise HTTPException(500)` around a controller body:
\* HTTPException is an Exception, so whatever the body raises leaves as a 500
ExceptException(outcome) ==
    IF outcome.kind = "raise" THEN Raise(HTTP_500_INTERNAL_SERVER_ERROR) ELSE outcome

\* a call binds its keyword arguments to the parameters of the callee, or
\* raises TypeError
CallBinds(keywords, parameters) == keywords \subseteq parameters

\* a pydantic model is built when every required field is given, or raises
\* ValidationError
ModelValidates(required, given) == required \subseteq given

\* schemas/conversation.py: the fields of PaginatedConversationResponse, all required
PaginatedConversationResponseFields == {"total", "page", "limit", "data"}

\* the parameters of MessageModel.get_conversation_messages
GetConversationMessagesParameters == {"conversation_id", "limit", "before_ts"}

\* ConversationController.get_user_conversations, the body of its try
UserConversationsBody(conversations) ==
    IF conversations = <<>> THEN Raise(HTTP_404_NOT_FOUND)
    ELSE IF ModelValidates(PaginatedConversationResponseFields,
                           {"conversations", "page", "limit", "total"})
         THEN Return(conversations)
         ELSE Raise(HTTP_500_INTERNAL_SERVER_ERROR)

\* MessageController.get_conversation_messages, the body of its try
ConversationMessagesBody(conversation_id, limit) ==
    IF ~CallBinds({"conversation_id", "page", "limit"}, GetConversationMessagesParameters)
    THEN Raise(HTTP_500_INTERNAL_SERVER_ERROR)
    ELSE LET found == ConversationMessages(messages, conversation_id, limit, now)
         IN  IF found = <<>> THEN Raise(HTTP_404_NOT_FOUND) ELSE Return(found)

Respond(request, outcome, rows) ==
    [request |-> request, status |-> outcome.status, items |-> outcome.items,
     rows |-> rows, before |-> NoTimestamp]

\* ConversationController.get_user_conversations(user_id, page, limit)
ControllerGetUserConversations(user_id, limit) ==
    /\ response = NoResponse
    /\ response' =
           Respond("get_user_conversations",
                   ExceptException(UserConversationsBody(
                       UserConversations(conversations_by_user, user_id, limit, now))),
                   Cardinality(UserPartition(conversations_by_user, user_id)))
    /\ UNCHANGED <<now, conversations_by_user, messages, uuids, task, result, last, page,
                   pager, appended,
                   bootstrap>>

\* MessageController.get_conversation_messages(conversation_id, page, limit)
ControllerGetConversationMessages(conversation_id, limit) ==
    /\ response = NoResponse
    /\ response' =
           Respond("get_conversation_messages",
                   ExceptException(ConversationMessagesBody(conversation_id, limit)),
                   Cardinality(ConversationPartition(messages, conversation_id)))
    /\ UNCHANGED <<now, conversations_by_user, messages, uuids, task, result, last, page,
                   pager, appended,
                   bootstrap>>

\* the response has been sent
DiscardResponse ==
    /\ response # NoResponse
    /\ response' = NoResponse
    /\ UNCHANGED <<now, conversations_by_user, messages, uuids, task, result, last, page,
                   pager, appended,
                   bootstrap>>

Request ==
    \E limit \in Limits :
        \/ \E user_id \in Users : ControllerGetUserConversations(user_id, limit)
        \/ \E cid \in ConversationIds : ControllerGetConversationMessages(cid, limit)

\* the controllers over a seeded store
NextHttp == Tick \/ SeedOneUser \/ Request \/ DiscardResponse
SpecHttp == Init /\ [][NextHttp]_vars

\* C8: a request for the conversations of a user that has none, or for the
\* messages of a conversation that has none, is answered 200 with zero items.
C8_EmptyIsNotAnError ==
    (response # NoResponse /\ response.rows = 0)
    => (response.status = HTTP_200_OK /\ response.items = <<>>)

\* ------------------------------------------------------- the message log

\* C11: a message row that has been written stays as it is: no step removes
\* it or changes its sender_id, content, timestamp or message_id, so the set of
\* message rows only grows.
C11_AppendOnly ==
    [][messages \subseteq messages']_vars

\* ------------------------------------------------- the conversation index

\* the conversation scan of one user
ScanUserConversations ==
    \E user_id \in Users, limit \in Limits, before_ts \in OptionalTimestamps :
        GetUserConversations(user_id, limit, before_ts)

\* sequential resolves and appends, then a scan of a user's conversations
NextIndex == Tick \/ SequentialResolve \/ SequentialAppend \/ ScanUserConversations
                  \/ DiscardPage
SpecIndex == Init /\ [][NextIndex]_vars

\* the entries of a page for one conversation
EntriesOf(items, cid) == {i \in 1..Len(items) : items[i].conversation_id = cid}

\* C12: a scan of a user's conversations whose bound and limit leave out none
\* of the user's rows shows a conversation of that user to which messages were
\* appended exactly once, with the peer of the user's membership row and with
\* last_message_ts equal to the greatest timestamp among its messages.
C12_LatestActivityOnce ==
    [][(/\ page = NoPage /\ page' # NoPage
        /\ page'.kind = "conversations"
        /\ AllIdle
        /\ page'.limit >= Cardinality(UserPartition(conversations_by_user, page'.key))
        /\ \A r \in UserPartition(conversations_by_user, page'.key) :
               r.last_message_ts < page'.cursor)
       => \A r \in UserPartition(conversations_by_user, page'.key) :
              AppendedTo(r.conversation_id) # {}
              => LET cid == r.conversation_id
                     entries == EntriesOf(page'.items, cid)
                 IN  /\ Cardinality(entries) = 1
                     /\ \A i \in entries :
                            /\ page'.items[i].peer_id = r.peer_id
                            /\ page'.items[i].last_message_ts
                                   = Max({m.timestamp :
                                             m \in ConversationPartition(messages, cid)})]_vars

\* --------------------------------------------------------- the page of a scan

\* both scans over a store the seeding script filled and appends extended
NextPage == Tick \/ SeedOneUser \/ SequentialAppend \/ Scan \/ DiscardPage
SpecPage == Init /\ [][NextPage]_vars

\* the clustering keys of the partition a scan reads
PartitionTimestamps(kind, key) ==
    IF kind = "conversations"
    THEN {r.last_message_ts : r \in {x \in conversations_by_user : x.user_id = key}}
    ELSE {m.timestamp : m \in {x \in messages : x.conversation_id = key}}

ItemTimestamps(kind, items) == {ItemTimestamp(kind, items[i]) : i \in 1..Len(items)}

\* C13: a page returned by get_user_conversations or get_conversation_messages
\* has at most `limit` rows, in descending timestamp order, all of them rows of
\* the partition before the bound; it is full when the partition has `limit`
\* rows before the bound, and every row of the partition before the bound that
\* is not in the page is older than every row in the page.
C13_PageShape ==
    [][(page = NoPage /\ page' # NoPage)
       => LET kind == page'.kind
              items == page'.items
              before == {t \in PartitionTimestamps(kind, page'.key) : t < page'.cursor}
              got == ItemTimestamps(kind, items)
          IN  /\ Len(items) <= page'.limit
              /\ \A i \in 1..(Len(items) - 1) :
                     ItemTimestamp(kind, items[i]) >= ItemTimestamp(kind, items[i + 1])
              /\ got \subseteq before
              /\ Cardinality(got) = Len(items)
              /\ Len(items) = IF Cardinality(before) < page'.limit
                              THEN Cardinality(before) ELSE page'.limit
              /\ \A t \in before \ got : \A g \in got : t < g]_vars

\* a full page of a user's conversations, of a scan that matched more rows
\* than its limit
C13_Witness ==
    /\ page # NoPage
    /\ page.kind = "conversations"
    /\ Len(page.items) = page.limit
    /\ page.matched > page.limit

\* ---------------------------------------------------------------- the routes

\* the parameters of the controller methods (self aside) and of
\* MessageModel.get_messages_before_timestamp
ControllerGetUserConversationsParameters == {"user_id", "page", "limit"}
ControllerGetConversationMessagesParameters == {"conversation_id", "page", "limit"}
ControllerGetMessagesBeforeTimestampParameters ==
    {"conversation_id", "before_timestamp", "page", "limit"}
GetMessagesBeforeTimestampParameters == {"conversation_id", "before_timestamp", "limit"}

\* MessageController.get_messages_before_timestamp, the body of its try
MessagesBeforeTimestampBody(conversation_id, before_timestamp, limit) ==
    IF ~CallBinds({"conversation_id", "before_timestamp", "page", "limit"},
                  GetMessagesBeforeTimestampParameters)
    THEN Raise(HTTP_500_INTERNAL_SERVER_ERROR)
    ELSE LET found == ConversationMessages(messages, conversation_id, limit,
                                           before_timestamp)
         IN  IF found = <<>> THEN Raise(HTTP_404_NOT_FOUND) ELSE Return(found)

\* a route handler awaits a controller method: a call that does not bind
\* raises TypeError in the handler, which has no try, and the server answers 500
RouteCalls(keywords, parameters, outcome) ==
    IF CallBinds(keywords, parameters) THEN outcome
    ELSE Raise(HTTP_500_INTERNAL_SERVER_ERROR)

\* GET /api/conversations/user/{user_id}?limit=&before=
RouteGetUserConversations(user_id, limit, before) ==
    /\ response = NoResponse
    /\ response' =
           [Respond("route_get_user_conversations",
                    RouteCalls({"user_id", "limit", "before_ts"},
                               ControllerGetUserConversationsParameters,
                               ExceptException(UserConversationsBody(
                                   UserConversations(conversations_by_user, user_id,
                                                     limit, now)))),
                    Cardinality(UserRowsBefore(conversations_by_user, user_id,
                                               Cursor(before))))
            EXCEPT !.before = before]
    /\ UNCHANGED <<now, conversations_by_user, messages, uuids, task, result, last, page,
                   pager, appended,
                   bootstrap>>

\* GET /api/messages/conversation/{conversation_id}?limit=&before=
RouteGetConversationMessages(conversation_id, limit, before) ==
    /\ response = NoResponse
    /\ response' =
           [Respond("route_get_conversation_messages",
                    RouteCalls({"conversation_id", "limit", "before_ts"},
                               ControllerGetConversationMessagesParameters,
                               ExceptException(
                                   ConversationMessagesBody(conversation_id, limit))),
                    Cardinality(MessageRowsBefore(messages, conversation_id,
                                                  Cursor(before))))
            EXCEPT !.before = before]
    /\ UNCHANGED <<now, conversations_by_user, messages, uuids, task, result, last, page,
                   pager, appended,
                   bootstrap>>

\* GET /api/messages/conversation/{conversation_id}/before?before_timestamp=&limit=
RouteGetMessagesBeforeTimestamp(conversation_id, before_timestamp, limit) ==
    /\ response = NoResponse
    /\ before_timestamp # NoTimestamp
    /\ response' =
           [Respond("route_get_messages_before_timestamp",
                    RouteCalls({"conversation_id", "before_timestamp", "limit"},
                               ControllerGetMessagesBeforeTimestampParameters,
                               ExceptException(
                                   MessagesBeforeTimestampBody(conversation_id,
                                       before_timestamp[1], limit))),
                    Cardinality(MessageRowsBefore(messages, conversation_id,
                                                  before_timestamp[1])))
            EXCEPT !.before = before_timestamp]
    /\ UNCHANGED <<now, conversations_by_user, messages, uuids, task, result, last, page,
                   pager, appended,
                   bootstrap>>

RouteRequest ==
    \E limit \in Limits, before \in OptionalTimestamps :
        \/ \E user_id \in Users : RouteGetUserConversations(user_id, limit, before)
        \/ \E cid \in ConversationIds : RouteGetConversationMessages(cid, limit, before)
        \/ \E cid \in ConversationIds : RouteGetMessagesBeforeTimestamp(cid, before, limit)

\* the routes over a seeded store
NextRoute == Tick \/ SeedOneUser \/ RouteRequest \/ DiscardResponse
SpecRoute == Init /\ [][NextRoute]_vars

\* C14: a request through a route that gives the cursor `before` = T, for a
\* user or a conversation that has rows before T, is answered 200 with a page
\* of rows that all lie strictly before T.
C14_CursorHonoured ==
    (/\ response # NoResponse
     /\ response.before # NoTimestamp
     /\ response.rows > 0)
    => /\ response.status = HTTP_200_OK
       /\ response.items # <<>>
       /\ \A i \in 1..Len(response.items) :
              ItemTimestamp(IF response.request = "route_get_user_conversations"
                            THEN "conversations" ELSE "messages",
                            response.items[i]) < response.before[1]

\* ------------------------------------------- one conversation, one message sent

\* schemas/conversation.py: the required fields of ConversationResponse
ConversationResponseFields == {"conversation_id", "peer_id", "last_message_ts"}

\* ConversationModel.get_conversation, when the store runs the SELECT: the dict
\* of result[0], any row that carries the id, or the empty dict when none does.
\* The value is the set of what the call may return, each a set of 0 or 1 dict.
GetConversation(tbl, conversation_id) ==
    IF ConversationPartition(tbl, conversation_id) = {} THEN {{}}
    ELSE {{[conversation_id |-> r.conversation_id, peer_id |-> r.peer_id]} :
             r \in ConversationPartition(tbl, conversation_id)}

\* ConversationController.get_conversation, the body of its try after the
\* model returned
ConversationBody(conversation) ==
    IF conversation = {} THEN Raise(HTTP_404_NOT_FOUND)
    ELSE IF ModelValidates(ConversationResponseFields, {"conversation_id", "peer_id"})
         THEN Return(<<CHOOSE c \in conversation : TRUE>>)
         ELSE Raise(HTTP_500_INTERNAL_SERVER_ERROR)

\* ConversationController.get_conversation(conversation_id)
ControllerGetConversation(conversation_id) ==
    /\ response = NoResponse
    /\ \E conversation \in GetConversation(conversations_by_user, conversation_id) :
           response' =
               Respond("get_conversation", ExceptException(ConversationBody(conversation)),
                       Cardinality(ConversationPartition(conversations_by_user,
                                                         conversation_id)))
    /\ UNCHANGED <<now, conversations_by_user, messages, uuids, task, result, last, page,
                   pager, appended,
                   bootstrap>>

\* the SELECT of get_conversation restricts conversation_id alone, which is not
\* the partition key of conversations_by_user: a store that rejects it makes
\* the model raise inside the controller's try
ControllerGetConversationRejected(conversation_id) ==
    /\ response = NoResponse
    /\ response' =
           Respond("get_conversation",
                   ExceptException(Raise(HTTP_500_INTERNAL_SERVER_ERROR)),
                   Cardinality(ConversationPartition(conversations_by_user,
                                                     conversation_id)))
    /\ UNCHANGED <<now, conversations_by_user, messages, uuids, task, result, last, page,
                   pager, appended,
                   bootstrap>>

GetConversationRequest ==
    \E cid \in ConversationIds :
        \/ ControllerGetConversation(cid)
        \/ ControllerGetConversationRejected(cid)

\* C15: a request for a conversation by an id that no membership row carries
\* is answered 404.
C15_NotFoundIsNotFound ==
    (/\ response # NoResponse
     /\ response.request = "get_conversation"
     /\ response.rows = 0)
    => response.status = HTTP_404_NOT_FOUND

HTTP_201_CREATED == 201

\* the parameters of MessageModel.create_message and the methods MessageModel has
CreateMessageParameters == {"sender_id", "conversation_id", "content", "timestamp"}
MessageModelMethods ==
    {"create_message", "get_conversation_messages", "get_messages_before_timestamp"}

\* MessageController.send_message, the body of its try: the call of
\* create_message binds its keywords before any statement of create_message
\* runs, then get_message_by_id is looked up on MessageModel
SendMessageBody ==
    IF ~CallBinds({"sender_id", "receiver_id", "content", "timestamp"},
                  CreateMessageParameters)
    THEN Raise(HTTP_500_INTERNAL_SERVER_ERROR)
    ELSE IF "get_message_by_id" \notin MessageModelMethods
         THEN Raise(HTTP_500_INTERNAL_SERVER_ERROR)
         ELSE Return(<<>>)

\* MessageController.send_message(message_data): the call of create_message
\* raises TypeError before create_message is entered, so the store is as it was;
\* `rows` is the number of message rows the request stored
ControllerSendMessage(sender_id, receiver_id, content) ==
    /\ response = NoResponse
    /\ sender_id # receiver_id
    /\ messages' = messages
    /\ response' = Respond("send_message", ExceptException(SendMessageBody),
                           Cardinality(messages' \ messages))
    /\ UNCHANGED <<now, conversations_by_user, uuids, task, result, last, page,
                   pager, appended,
                   bootstrap>>

SendMessageRequest ==
    \E sender_id \in Senders, receiver_id \in Users, content \in Contents :
        ControllerSendMessage(sender_id, receiver_id, content)

\* single-record requests over a seeded store
NextApi == Tick \/ SeedOneUser \/ GetConversationRequest \/ SendMessageRequest
                \/ DiscardResponse
SpecApi == Init /\ [][NextApi]_vars

\* C16: a request to send a message is answered with success and the created
\* record, and has stored exactly one new message row.
C16_SendReturnsCreated ==
    (/\ response # NoResponse
     /\ response.request = "send_message")
    => /\ response.status \in {HTTP_200_OK, HTTP_201_CREATED}
       /\ response.rows = 1
       /\ Len(response.items) = 1

\* ------------------------------------------------------ the resolver's writes

\* C17: a call of create_or_get_conversation whose probe finds a row returns
\* the conversation_id of a membership row of one of its two users and leaves
\* conversations_by_user and messages as they were.
C17_FoundWritesNothing ==
    [][\A p \in Procs :
          (ResolveReturns(p) /\ task[p].pc = "probe")
          => /\ conversations_by_user' = conversations_by_user
             /\ messages' = messages
             /\ \E r \in conversations_by_user :
                    /\ r.user_id \in {task[p].user_a, task[p].user_b}
                    /\ r.conversation_id = result'[p].value]_vars

\* the last call was a create_or_get_conversation(A, B) that returned the
\* seeded conversation between A and B and handed out no new id
C17_Witness ==
    /\ last.op = "resolve" /\ last.status = "ok"
    /\ messages # {}
    /\ uuids.conversation = {last.value}
    /\ \E r \in conversations_by_user :
           /\ r.user_id = last.user_a
           /\ r.peer_id = last.user_b
           /\ r.conversation_id = last.value

\* a create_or_get_conversation stops between its two INSERTs
ResolveCrash == \E p \in {"p1"} : ResolveInsertBFails(p)

\* sequential resolves, some of which stop after the first INSERT, and scans
NextCrash == Tick \/ SequentialResolve \/ ResolveCrash \/ ScanUserConversations
                  \/ DiscardPage
SpecCrash == Init /\ [][NextCrash]_vars

\* C18: after a create_or_get_conversation(A, B) that stopped between its two
\* INSERTs, a scan of a user's conversations returns only conversations that
\* user has a membership row for, and the next create_or_get_conversation for
\* the same two users, in either order, that returns leaves A and B each with a
\* membership row of the conversation id it returned.
C18_PartialCreateHealed ==
    /\ [][(page = NoPage /\ page' # NoPage /\ page'.kind = "conversations")
          => \A i \in 1..Len(page'.items) :
                 \E r \in UserPartition(conversations_by_user, page'.key) :
                     r.conversation_id = page'.items[i].conversation_id]_vars
    /\ [][\A p \in Procs :
            (/\ ResolveReturns(p)
             /\ last.op = "resolve" /\ last.status = "error"
             /\ Pair(last.user_a, last.user_b) = Pair(task[p].user_a, task[p].user_b))
            => \E ra \in UserPartition(conversations_by_user', task[p].user_a),
                  rb \in UserPartition(conversations_by_user', task[p].user_b) :
                   /\ ra.conversation_id = result'[p].value
                   /\ rb.conversation_id = result'[p].value]_vars

\* ------------------------------------------------------- the absent cursor

\* C19: a scan called with no cursor returns what the same scan returns with
\* the current time as cursor: the `limit` most recent rows of the partition
\* with a timestamp strictly before the current time, and no row at or after it.
C19_AbsentCursorIsNow ==
    [][(page = NoPage /\ page' # NoPage /\ page'.before_ts = NoTimestamp)
       => LET kind == page'.kind
              items == page'.items
              before == {t \in PartitionTimestamps(kind, page'.key) : t < now}
              got == ItemTimestamps(kind, items)
          IN  /\ items = IF kind = "conversations"
                         THEN UserConversations(conversations_by_user, page'.key,
                                                page'.limit, now)
                         ELSE ConversationMessages(messages, page'.key, page'.limit, now)
              /\ \A t \in got : t < now
              /\ got \subseteq before
              /\ Len(items) = IF Cardinality(before) < page'.limit
                              THEN Cardinality(before) ELSE page'.limit
              /\ \A t \in before \ got : \A g \in got : t < g]_vars

\* a scan of a user's conversations with no cursor that returned a row and
\* left out a row of the user at or after the time of the scan
C19_Witness ==
    /\ page # NoPage
    /\ page.kind = "conversations"
    /\ page.before_ts = NoTimestamp
    /\ Len(page.items) >= 1
    /\ page.matched < page.size

\* ------------------------------------------- membership rows of other conversations

\* C20: a statement of a create_or_get_conversation or create_message call
\* removes or changes no membership row of a conversation other than the
\* call's own.
C20_MembershipIsolation ==
    [][\A p \in Procs :
          (task[p].op # "idle" /\ task'[p] # task[p])
          => \A r \in conversations_by_user :
                 r.conversation_id # task[p].conversation_id
                 => r \in conversations_by_user']_vars

\* ------------------------------------------------ the order of the two writes

\* the time a conversation id was made at (now = datetime.utcnow() of the
\* resolver, base_time of the seeding script)
CreatedAt(cid) == {c.ts : c \in {x \in uuids.created : x.conversation_id = cid}}

\* C21: in every state, between the statements of a call and after a call
\* that ended in an error included, the last_message_ts of every membership
\* row is the creation time of its conversation or the timestamp of a message
\* row stored in that conversation.
C21_IndexPointsAtStoredMessage ==
    \A r \in conversations_by_user :
        \/ r.last_message_ts \in CreatedAt(r.conversation_id)
        \/ \E m \in ConversationPartition(messages, r.conversation_id) :
               m.timestamp = r.last_message_ts

\* a membership row that create_message moved off the creation time of its
\* conversation, onto the timestamp of a stored message
C21_Witness ==
    \E r \in conversations_by_user :
        /\ r.last_message_ts \notin CreatedAt(r.conversation_id)
        /\ \E m \in ConversationPartition(messages, r.conversation_id) :
               /\ m.timestamp = r.last_message_ts
               /\ m.message_id # NoId

\* a call of create_message ends at its INSERT
AppendEndsAtInsert(p) ==
    /\ task[p].op = "append"
    /\ task[p].pc = "insert"
    /\ task'[p].op = "idle"

\* C22: a call of create_message whose INSERT raises ends with an error, adds
\* no message row and changes no membership row.
C22_FailedAppendWritesNothing ==
    [][\A p \in Procs :
          AppendEndsAtInsert(p)
          => /\ result'[p].op = "append"
             /\ result'[p].status = "error"
             /\ messages' = messages
             /\ conversations_by_user' = conversations_by_user]_vars

\* the only create_message made so far ended with an error at its INSERT, on a
\* store that holds membership rows: its message id is in no message row
C22_Witness ==
    /\ AllIdle
    /\ last.op = "append" /\ last.status = "error"
    /\ Cardinality(uuids.message) = 1
    /\ \A m \in messages : m.message_id \notin uuids.message
    /\ conversations_by_user # {}

\* --------------------------------------- scripts/setup_db.py, wait_for_cassandra

\* `for _ in range(10)`
MaxAttempts == 10

\* what an attempt may raise: Cluster(...) on its contact points, or
\* cluster.connect() when no host answers
ConnectErrors == {"Cluster", "connect"}

\* wait_for_cassandra() is called: cluster = None, the loop is entered
InitBoot ==
    /\ now = 1
    /\ conversations_by_user = {}
    /\ messages = {}
    /\ uuids = [conversation |-> {}, message |-> {}, created |-> {}]
    /\ task = [p \in Procs |-> Idle]
    /\ result = [p \in Procs |-> NoResult]
    /\ last = NoResult
    /\ page = NoPage
    /\ response = NoResponse
    /\ pager = NoPager
    /\ appended = {}
    /\ bootstrap = [NoBootstrap EXCEPT !.pc = "try"]

\* lines 23-28: an iteration whose Cluster(...) and connect() succeed returns
\* the cluster
BootAttemptSucceeds ==
    /\ bootstrap.pc = "try"
    /\ bootstrap.attempts < MaxAttempts
    /\ bootstrap' = [bootstrap EXCEPT !.pc = "returned", !.attempts = @ + 1,
                                      !.cluster = "cluster"]
    /\ UNCHANGED <<now, conversations_by_user, messages, uuids, task, result, last, page,
                   response, pager, appended>>

\* lines 23-30: an iteration whose Cluster(...) or connect() raises logs the
\* warning
BootAttemptFails(e) ==
    /\ bootstrap.pc = "try"
    /\ bootstrap.attempts < MaxAttempts
    /\ bootstrap' = [bootstrap EXCEPT !.pc = "sleep", !.attempts = @ + 1,
                                      !.log = Append(@, e)]
    /\ UNCHANGED <<now, conversations_by_user, messages, uuids, task, result, last, page,
                   response, pager, appended>>

\* line 31: time.sleep(5) returns and the loop goes on
BootSleep ==
    /\ bootstrap.pc = "sleep"
    /\ bootstrap' = [bootstrap EXCEPT !.pc = "try"]
    /\ UNCHANGED <<now, conversations_by_user, messages, uuids, task, result, last, page,
                   response, pager, appended>>

\* the loop gives up one iteration early
BootExhaustedEarly ==
    /\ bootstrap.pc = "try"
    /\ bootstrap.attempts >= MaxAttempts - 1
    /\ bootstrap' = [bootstrap EXCEPT !.pc = "raised"]
    /\ UNCHANGED <<now, conversations_by_user, messages, uuids, task, result, last, page,
                   response, pager, appended>>

\* lines 33-34: range(10) is exhausted, the function raises
BootExhausted ==
    /\ bootstrap.pc = "try"
    /\ bootstrap.attempts = MaxAttempts
    /\ bootstrap' = [bootstrap EXCEPT !.pc = "raised"]
    /\ UNCHANGED <<now, conversations_by_user, messages, uuids, task, result, last, page,
                   response, pager, appended>>

WaitForCassandra ==
    \/ BootAttemptSucceeds
    \/ \E e \in ConnectErrors : BootAttemptFails(e)
    \/ BootSleep
    \/ BootExhausted

\* the script runs on: connect() answers or raises within the driver's
\* timeout and sleep(5) returns, so a step that can be taken is taken
NextBoot == WaitForCassandra
SpecBoot == InitBoot /\ [][NextBoot]_vars /\ WF_vars(NextBoot)

BootTerminated == bootstrap.pc \in {"returned", "raised"}

\* C23: wait_for_cassandra terminates; it makes at most 10 attempts; when it
\* has returned, it holds the cluster of its last attempt, every attempt
\* before that one failed, and it makes no further attempt; when it has
\* raised, exactly 10 attempts were made and all of them failed.
C23_BoundedRetry ==
    /\ <>BootTerminated
    /\ [](bootstrap.attempts <= MaxAttempts)
    /\ [](bootstrap.pc = "returned"
            => /\ bootstrap.cluster # None
               /\ Len(bootstrap.log) = bootstrap.attempts - 1)
    /\ [](bootstrap.pc = "raised"
            => /\ bootstrap.cluster = None
               /\ bootstrap.attempts = MaxAttempts
               /\ Len(bootstrap.log) = MaxAttempts)
    /\ [][BootTerminated => bootstrap' = bootstrap]_vars

\* wait_for_cassandra raised, after attempts that failed in Cluster(...) and
\* attempts that failed in connect()
C23_Witness ==
    /\ bootstrap.pc = "raised"
    /\ \E i, j \in 1..Len(bootstrap.log) :
           bootstrap.log[i] = "Cluster" /\ bootstrap.log[j] = "connect"

====
